---- MODULE Spec2Model ----
(***************************************************************************)
(* Model of the CoinGecko prediction generator (class PredictionGenerator). *)
(*                                                                         *)
(* Number representation.  Prices are integers in cents, volumes plain     *)
(* integers, a confidence is an integer in thousandths.  A JavaScript      *)
(* number that may be NaN is a record [nan, v].  Ratios that the code      *)
(* forms by division are kept as exact fractions and compared by cross     *)
(* multiplication; Number(x.toFixed(2)) is rounding half up to the cent    *)
(* (to the hundredth for a confidence).  Times are milliseconds since the  *)
(* epoch, as in a JavaScript Date.                                         *)
(***************************************************************************)
EXTENDS Integers, Sequences, FiniteSets, TLC

VARIABLES
    pc,              \* position of the running call
    priceData,       \* argument of analyzeTrend / generatePricePrediction
    trend,           \* value returned by analyzeTrend
    prediction,      \* value returned by generatePricePrediction
    now,             \* the instant new Date() reads (ms since epoch)
    tz,              \* the host time zone
    nextTimestamps,  \* value returned by getNextTimestamps
    interval,        \* generatePredictions: argument interval
    count,           \* generatePredictions: argument count
    response,        \* what the OHLC endpoint answers
    baseTimestamp,   \* generatePredictions: local baseTimestamp
    historicalData,  \* generatePredictions: local historicalData
    i,               \* generatePredictions: loop index
    predictions,     \* generatePredictions: local predictions
    error,           \* the error thrown to the caller, or "none"
    csv,             \* value returned by predictionsToCSV
    files,           \* the files of the target directory: {filename, text}
    attempted        \* generateAllPredictionFiles: cadences started so far

vars == <<pc, priceData, trend, prediction, now, tz, nextTimestamps, interval,
          count, response, baseTimestamp, historicalData, i, predictions,
          error, csv, files, attempted>>

-----------------------------------------------------------------------------
(* Bounds of the model *)

\* longest candle sequence handed to analyzeTrend / generatePricePrediction
MaxLen == 5
\* most candles put before a full window of 10
MaxExtra == 2
\* largest count handed to generatePredictions
MaxCount == 3
\* last epoch day from which "now" is drawn
MaxDay == 12

\* Math.random() draws, in hundredths: r = k / 100, 0 <= r < 1
Draws == {0, 50, 99}

Intervals == {"hours", "days", "weeks"}

-----------------------------------------------------------------------------
(* JavaScript numbers and helpers *)

NaN == [nan |-> TRUE, v |-> 0]

Num(x) == [nan |-> FALSE, v |-> x]

Abs(x) == IF x < 0 THEN -x ELSE x

Max(a, b) == IF a > b THEN a ELSE b

Min(a, b) == IF a < b THEN a ELSE b

Sign(x) == IF x > 0 THEN 1 ELSE IF x < 0 THEN -1 ELSE 0

\* Array.prototype.slice(start, end) with negative indices counted from the end
Slice(s, start, end) ==
    LET n == Len(s)
        a == IF start < 0 THEN Max(n + start, 0) ELSE Min(start, n)
        b == IF end < 0 THEN Max(n + end, 0) ELSE Min(end, n)
    IN  IF b <= a THEN << >> ELSE SubSeq(s, a + 1, b)

\* Array.prototype.slice(start)
SliceFrom(s, start) == Slice(s, start, Len(s))

\* reduce((sum, d) => sum + f(d), 0)
RECURSIVE SumOver(_, _)
SumOver(s, field) ==
    IF s = << >> THEN 0 ELSE s[1][field] + SumOver(Tail(s), field)

RECURSIVE MaxOver(_, _)
MaxOver(s, field) ==
    IF Len(s) = 1 THEN s[1][field]
    ELSE Max(s[1][field], MaxOver(Tail(s), field))

RECURSIVE MinOver(_, _)
MinOver(s, field) ==
    IF Len(s) = 1 THEN s[1][field]
    ELSE Min(s[1][field], MinOver(Tail(s), field))

-----------------------------------------------------------------------------
(* Trend analysis *)

\* changes[] of consecutive closes, summed; avgChange = num / den
calculateMomentum(data) ==
    LET changes == [k \in 1..(Len(data) - 1) |->
                        [c |-> data[k + 1].close - data[k].close]]
        total == SumOver(changes, "c")
    IN  [change |-> [num |-> total, den |-> Len(changes)],
         signal |-> Sign(total)]

\* shortMA = sum3 / 3, longMA = sum5 / 5, compared as 5*sum3 against 3*sum5
calculateMovingAverageTrend(data) ==
    IF Len(data) < 5 THEN [signal |-> 0]
    ELSE LET sum3 == SumOver(SliceFrom(data, -3), "close")
             sum5 == SumOver(SliceFrom(data, -5), "close")
         IN  [signal |-> Sign(5 * sum3 - 3 * sum5)]

calculateVolumeTrend_Inverted(data) ==
    LET hasVolume == \E k \in 1..Len(data) : data[k].volume > 0
        recent == SliceFrom(data, -3)
        older == Slice(data, -6, -3)
        r == SumOver(recent, "volume") * Len(older) * 10
        o == SumOver(older, "volume") * Len(recent)
    IN  IF ~hasVolume THEN [signal |-> 0]
        ELSE IF Len(older) = 0 THEN [signal |-> 0]
        ELSE [signal |-> IF r > o * 11 THEN -1 ELSE IF r < o * 9 THEN 1 ELSE 0]

\* recentAvgVol > olderAvgVol * 1.1 and < olderAvgVol * 0.9, cross multiplied
calculateVolumeTrend(data) ==
    LET hasVolume == \E k \in 1..Len(data) : data[k].volume > 0
        recent == SliceFrom(data, -3)
        older == Slice(data, -6, -3)
        r == SumOver(recent, "volume") * Len(older) * 10
        o == SumOver(older, "volume") * Len(recent)
    IN  IF ~hasVolume THEN [signal |-> 0]
        ELSE IF Len(older) = 0 THEN [signal |-> 0]
        ELSE [signal |-> IF r > o * 11 THEN 1 ELSE IF r < o * 9 THEN -1 ELSE 0]

\* sqrt(variance) / avgPrice = sqrt(sq) / sum, where with n prices of sum S
\* variance = SUM (n*p - S)^2 / n^3 and avgPrice = S / n
calculateVolatility(data) ==
    LET n == Len(data)
        S == SumOver(data, "close")
        dev == [k \in 1..n |-> [d2 |-> (n * data[k].close - S) * (n * data[k].close - S)]]
    IN  [sq |-> SumOver(dev, "d2") \div n, sum |-> S]

SupportResistanceSignal_OnePercent(maxHigh, minLow, currentPrice) ==
    IF (maxHigh - currentPrice) * 100 < currentPrice THEN -1
    ELSE IF (currentPrice - minLow) * 100 < currentPrice THEN 1
    ELSE 0

SupportResistanceSignal_SupportFirst(maxHigh, minLow, currentPrice) ==
    IF (currentPrice - minLow) * 100 < 2 * currentPrice THEN 1
    ELSE IF (maxHigh - currentPrice) * 100 < 2 * currentPrice THEN -1
    ELSE 0

\* distanceToResistance < 0.02 is (resistance - current) * 100 < 2 * current
SupportResistanceSignal(maxHigh, minLow, currentPrice) ==
    IF (maxHigh - currentPrice) * 100 < 2 * currentPrice THEN -1
    ELSE IF (currentPrice - minLow) * 100 < 2 * currentPrice THEN 1
    ELSE 0

findSupportResistance(data) ==
    LET currentPrice == data[Len(data)].close
        maxHigh == MaxOver(data, "high")
        minLow == MinOver(data, "low")
    IN  [signal |-> SupportResistanceSignal(maxHigh, minLow, currentPrice),
         resistance |-> maxHigh,
         support |-> minLow]

\* 360 * sqrt(sq) <= q, i.e. 129600 * sq <= q^2, without leaving 32 bits
SqrtLe(sq, q) ==
    LET a == q \div 360
        b == q % 360
    IN  /\ q >= 0
        /\ \/ a >= 46000
           \/ sq <= a * a + (a * b + (b * b) \div 720) \div 180

\* Number(confidence.toFixed(2)) in hundredths, for agreement = diff / total:
\* floor(100 * x + 1/2) with x = 0.6 + 0.25 * agreement + 0.15 * volatilityFactor,
\* volatilityFactor = max(0.1, 1 - 2 * sqrt(sq) / sum); times 12 this is
\* k + max(18, 180 - 360 * sqrt(sq) / sum) with k = 726 + 300 * diff / total
RawConfidence(diff, total, volatility) ==
    LET k == 726 + (300 * diff) \div total
        lo == (k + 18) \div 12
        hi == (k + 180) \div 12
        fits(c) == SqrtLe(volatility.sq, (k + 180 - 12 * c) * volatility.sum)
    IN  CHOOSE c \in lo..hi :
            /\ c = lo \/ fits(c)
            /\ \A d \in (c + 1)..hi : ~fits(d)

\* Math.min(0.95, Math.max(0.55, ...)); NaN when totalSignals is 0 (0 / 0)
Confidence(bullishCount, bearishCount, totalSignals, volatility) ==
    IF totalSignals = 0 THEN NaN
    ELSE Num(10 * Min(95, Max(55,
            RawConfidence(Abs(bullishCount - bearishCount), totalSignals, volatility))))

Color_TieGreen(bullishCount, bearishCount) ==
    IF bullishCount >= bearishCount THEN "green" ELSE "red"

Color(bullishCount, bearishCount) ==
    IF bullishCount > bearishCount THEN "green" ELSE "red"

\* the phrases joined by ', ', or 'mixed signals'; prefixed by COLOR (pct%)
generateAnalysisText(indicators, color, confidence) ==
    LET m == IF indicators.momentum > 0 THEN <<"bullish momentum">>
             ELSE IF indicators.momentum < 0 THEN <<"bearish momentum">> ELSE << >>
        a == IF indicators.movingAverage > 0 THEN <<"MA uptrend">>
             ELSE IF indicators.movingAverage < 0 THEN <<"MA downtrend">> ELSE << >>
        v == IF indicators.volume > 0 THEN <<"volume increase">>
             ELSE IF indicators.volume < 0 THEN <<"volume decrease">> ELSE << >>
        s == IF indicators.supportResistance > 0 THEN <<"near support">>
             ELSE IF indicators.supportResistance < 0 THEN <<"near resistance">> ELSE << >>
        parts == m \o a \o v \o s
    IN  [color |-> color,
         percent |-> IF confidence.nan THEN NaN ELSE Num(confidence.v \div 10),
         parts |-> IF Len(parts) > 0 THEN parts ELSE <<"mixed signals">>]

MinCandles == 3

\* the result carries no indicators property
NoIndicators == [present |-> FALSE]

\* a rationale that is a fixed text
FixedText(t) == [text |-> t]

InsufficientData_Two(data) == Len(data) < 2

InsufficientData(data) == Len(data) < MinCandles

RecentWindow_All(data) == data

\* const recent = priceData.slice(-10)
RecentWindow(data) == SliceFrom(data, -10)

analyzeTrend(data) ==
    IF InsufficientData(data)
    THEN [color |-> "green",
          confidence |-> Num(500),
          priceChange |-> [num |-> 0, den |-> 1],
          indicators |-> NoIndicators,
          analysis |-> FixedText("Insufficient data")]
    ELSE
        LET recent == RecentWindow(data)
            momentum == calculateMomentum(recent)
            maTrend == calculateMovingAverageTrend(recent)
            volumeTrend == calculateVolumeTrend(recent)
            volatility == calculateVolatility(recent)
            supportResistance == findSupportResistance(recent)
            indicators == [present |-> TRUE,
                           momentum |-> momentum.signal,
                           movingAverage |-> maTrend.signal,
                           volume |-> volumeTrend.signal,
                           volatility |-> volatility,
                           supportResistance |-> supportResistance.signal]
            all == <<momentum.signal, maTrend.signal, volumeTrend.signal,
                     supportResistance.signal>>
            signals == SelectSeq(all, LAMBDA s : s # 0)
            bullishCount == Len(SelectSeq(signals, LAMBDA s : s > 0))
            bearishCount == Len(SelectSeq(signals, LAMBDA s : s < 0))
            color == Color(bullishCount, bearishCount)
            confidence == Confidence(bullishCount, bearishCount, Len(signals), volatility)
        IN  [color |-> color,
             confidence |-> confidence,
             priceChange |-> momentum.change,
             indicators |-> indicators,
             analysis |-> generateAnalysisText(indicators, color, confidence)]

-----------------------------------------------------------------------------
(* Price projection *)

\* volatilityMultiplier[interval] || 0.025, in thousandths
VolatilityMultiplier(itv) ==
    CASE itv = "hours" -> 25
      [] itv = "days" -> 60
      [] itv = "weeks" -> 120
      [] OTHER -> 25

FallbackPrediction_Wide(r1, r2, r3) ==
    [color |-> IF r1 > 50 THEN "green" ELSE "red",
     confidence |-> Num(500 + 5 * r2),
     price |-> Num(5000 + 10 * r3),
     analysis |-> FixedText("No historical data - random prediction"),
     indicators |-> NoIndicators]

\* the no-data branch: three Math.random() draws r1, r2, r3 (hundredths)
FallbackPrediction(r1, r2, r3) ==
    [color |-> IF r1 > 50 THEN "green" ELSE "red",
     confidence |-> Num(500 + 3 * r2),
     price |-> Num(4500 + 10 * r3),
     analysis |-> FixedText("No historical data - random prediction"),
     indicators |-> NoIndicators]

\* Math.max(0.1, predictedPrice), in cents
ClampPrice(p) == Max(10, p)

\* Number(predictedPrice.toFixed(2)) in cents.  With close P, avgChange = num/den,
\* multiplier m/1000, draw r/100, confidence c/100 and bias b:
\*   randomComponent     = P * m/1000 * 0.4 * (2r - 100)/100
\*   trendComponent      = P * m/1000 * 0.4 * b * min(15 |num| / (den P), 1)
\*   confidenceComponent = P * m/1000 * 0.4 * b * (c - 50)/100
\* whose sum is m * (((2r - 100) + b (c - 50)) den P + 100 b t) / (250000 den)
\* with t = min(15 |num|, den P)
ProjectedPrice(P, tr, itv, r) ==
    IF tr.confidence.nan THEN NaN
    ELSE
        LET m == VolatilityMultiplier(itv)
            c == tr.confidence.v \div 10
            b == IF tr.color = "green" THEN 1 ELSE -1
            num == tr.priceChange.num
            den == tr.priceChange.den
            t == Min(15 * Abs(num), den * P)
            top == m * (((2 * r - 100) + b * (c - 50)) * den * P + 100 * b * t)
            bot == 250000 * den
        IN  Num(ClampPrice(P + (top + bot \div 2) \div bot))

generatePricePrediction(data, itv, r1, r2, r3) ==
    IF Len(data) = 0 THEN FallbackPrediction(r1, r2, r3)
    ELSE
        LET latestCandle == data[Len(data)]
            tr == analyzeTrend(data)
        IN  [color |-> tr.color,
             confidence |-> tr.confidence,
             price |-> ProjectedPrice(latestCandle.close, tr, itv, r1),
             analysis |-> tr.analysis,
             indicators |-> tr.indicators]

-----------------------------------------------------------------------------
(* Date arithmetic of getNextTimestamps.  A time zone is the offset of local *)
(* time from UTC before and after one transition instant (equal offsets: no *)
(* transition).                                                              *)

MsPerSecond == 1000

MsPerHour == 3600000

MsPerDay == 86400000

Offset(z, t) == IF t < z.at THEN z.before ELSE z.after

LocalTime(t, z) == t + Offset(z, t)

\* the instant of a local time: a local time that occurs twice, or never, is
\* read with the offset in force before the transition
UTC(tl, z) ==
    IF tl - z.before < z.at THEN tl - z.before
    ELSE IF tl - z.after >= z.at THEN tl - z.after
    ELSE tl - z.before

Day(t) == t \div MsPerDay

HourFromTime(t) == (t \div MsPerHour) % 24

\* epoch day 0 is a Thursday; 0 = Sunday ... 6 = Saturday
WeekDay(t) == (Day(t) + 4) % 7

getHours(t, z) == HourFromTime(LocalTime(t, z))

getDay(t, z) == WeekDay(LocalTime(t, z))

\* d.setMinutes(0, 0, 0)
setMinutesZero(t, z) ==
    LET tl == LocalTime(t, z)
    IN  UTC(Day(tl) * MsPerDay + HourFromTime(tl) * MsPerHour, z)

\* d.setHours(h)
setHours(t, h, z) ==
    LET tl == LocalTime(t, z)
    IN  UTC(Day(tl) * MsPerDay + h * MsPerHour + (tl % MsPerHour), z)

\* d.setHours(0, 0, 0, 0)
setHoursZero(t, z) == UTC(Day(LocalTime(t, z)) * MsPerDay, z)

\* d.setDate(d.getDate() + k)
setDatePlus(t, k, z) == UTC(LocalTime(t, z) + k * MsPerDay, z)

\* (8 - getDay()) % 7, and 7 when that is 0
DaysUntilMonday(weekday) ==
    LET d == (8 - weekday) % 7 IN IF d = 0 THEN 7 ELSE d

getNextTimestamps(t, z) ==
    LET hourStart == setMinutesZero(t, z)
        nextHour == setHours(hourStart, getHours(hourStart, z) + 1, z)
        dayStart == setHoursZero(t, z)
        nextDay == setDatePlus(dayStart, 1, z)
        nextWeek == setDatePlus(dayStart, DaysUntilMonday(getDay(dayStart, z)), z)
    IN  [hourly |-> nextHour \div MsPerSecond,
         daily |-> nextDay \div MsPerSecond,
         weekly |-> nextWeek \div MsPerSecond]

FixedZone(minutes) ==
    [before |-> minutes * 60000, after |-> minutes * 60000, at |-> 0]

\* one transition on Sunday, epoch day 10
Zones ==
    { FixedZone(0), FixedZone(60), FixedZone(-300), FixedZone(330),
      \* clocks go back from 02:00 to 01:00 (UTC-4 to UTC-5) at 06:00 UTC
      [before |-> -4 * MsPerHour, after |-> -5 * MsPerHour, at |-> 10 * MsPerDay + 6 * MsPerHour],
      \* clocks go forward from 02:00 to 03:00 (UTC+1 to UTC+2) at 01:00 UTC
      [before |-> 1 * MsPerHour, after |-> 2 * MsPerHour, at |-> 10 * MsPerDay + 1 * MsPerHour] }

\* instants "now": every half hour of the epoch days 1..MaxDay, on the half
\* hour, one millisecond after it and one millisecond before the next
Nows ==
    { d * MsPerDay + h * 1800000 + e :
        d \in 1..MaxDay, h \in 0..47, e \in {0, 1, 1799999} }

-----------------------------------------------------------------------------
(* Candle sequences the analysis is exercised on *)

Closes == {4500, 4600, 4700}

\* distance of a candle's high above, and of its low below, its close
Wicks == {50, 200}

VolumePatterns == {"zero", "flat", "rising", "falling"}

VolumeAt(p, k, n) ==
    CASE p = "zero" -> 0
      [] p = "flat" -> 100
      [] p = "rising" -> 100 * k
      [] p = "falling" -> 100 * (n - k + 1)

MakeCandles(closes, hi, lo, vp) ==
    [k \in 1..Len(closes) |->
        [timestamp |-> 1000 * k,
         open |-> closes[k],
         high |-> closes[k] + hi,
         low |-> closes[k] - lo,
         close |-> closes[k],
         volume |-> VolumeAt(vp, k, Len(closes))]]

\* mockData of the test (Test 6)
MockData ==
    << [timestamp |-> 1000, open |-> 4500, high |-> 4600, low |-> 4450, close |-> 4550, volume |-> 0],
       [timestamp |-> 2000, open |-> 4550, high |-> 4700, low |-> 4500, close |-> 4620, volume |-> 0],
       [timestamp |-> 3000, open |-> 4620, high |-> 4750, low |-> 4600, close |-> 4680, volume |-> 0],
       [timestamp |-> 4000, open |-> 4680, high |-> 4780, low |-> 4650, close |-> 4720, volume |-> 0] >>

CandleSequences ==
    {MockData} \cup
    UNION { { MakeCandles(cl, hi, lo, vp) :
                cl \in [1..n -> Closes], hi \in Wicks, lo \in Wicks, vp \in VolumePatterns }
            : n \in 0..MaxLen }

-----------------------------------------------------------------------------
(* Fetching the candles *)

\* insertion of candle c into a sequence sorted by timestamp, after its equals
RECURSIVE InsertByTimestamp(_, _)
InsertByTimestamp(sorted, c) ==
    IF sorted = << >> THEN <<c>>
    ELSE IF c.timestamp < sorted[1].timestamp THEN <<c>> \o sorted
    ELSE <<sorted[1]>> \o InsertByTimestamp(Tail(sorted), c)

\* .sort((a, b) => a.timestamp - b.timestamp), a stable sort
RECURSIVE SortByTimestamp(_)
SortByTimestamp(s) ==
    IF s = << >> THEN << >>
    ELSE InsertByTimestamp(SortByTimestamp(SubSeq(s, 1, Len(s) - 1)), s[Len(s)])

\* item = [time in ms, open, high, low, close]
normalizeOHLCData(ohlcData) ==
    SortByTimestamp(
        [k \in 1..Len(ohlcData) |->
            [timestamp |-> ohlcData[k][1] \div 1000,
             open |-> ohlcData[k][2],
             high |-> ohlcData[k][3],
             low |-> ohlcData[k][4],
             close |-> ohlcData[k][5],
             volume |-> 0]])

\* the rejected fetch() promise
NetworkError == [kind |-> "network", ok |-> FALSE, status |-> 0, null |-> TRUE, data |-> << >>]

HttpResponse(status, null, data) ==
    [kind |-> "http", ok |-> (status >= 200 /\ status <= 299), status |-> status,
     null |-> null, data |-> data]

FetchOutcome_NoEmptyCheck(resp) ==
    IF resp.kind = "network" THEN [error |-> "fetch failed", data |-> << >>]
    ELSE IF ~resp.ok THEN [error |-> "HTTP error", data |-> << >>]
    ELSE IF resp.null THEN [error |-> "TypeError", data |-> << >>]
    ELSE [error |-> "none", data |-> normalizeOHLCData(resp.data)]

\* fetchOHLCData: the error it rethrows, or the candles it returns
FetchOutcome(resp) ==
    IF resp.kind = "network" THEN [error |-> "fetch failed", data |-> << >>]
    ELSE IF ~resp.ok THEN [error |-> "HTTP error", data |-> << >>]
    ELSE IF resp.null \/ Len(resp.data) = 0
         THEN [error |-> "No OHLC data available", data |-> << >>]
    ELSE [error |-> "none", data |-> normalizeOHLCData(resp.data)]

\* payloads of the OHLC endpoint
Payloads ==
    { \* one candle
      << <<86400500, 4500, 4700, 4300, 4500>> >>,
      \* three rising candles, newest first
      << <<259200000, 4700, 4900, 4500, 4700>>,
         <<172800000, 4600, 4800, 4400, 4600>>,
         <<86400000, 4500, 4700, 4300, 4500>> >>,
      \* three candles ending where they began, far from support and resistance
      << <<86400000, 4500, 4700, 4300, 4500>>,
         <<172800000, 4600, 4800, 4400, 4600>>,
         <<259200000, 4500, 4700, 4300, 4500>> >>,
      \* five falling candles
      << <<86400000, 4700, 4750, 4650, 4700>>,
         <<172800000, 4700, 4750, 4650, 4700>>,
         <<259200000, 4600, 4650, 4550, 4600>>,
         <<345600000, 4600, 4650, 4550, 4600>>,
         <<432000000, 4500, 4550, 4450, 4500>> >> }

Responses ==
    {NetworkError, HttpResponse(429, FALSE, << >>), HttpResponse(200, TRUE, << >>),
     HttpResponse(200, FALSE, << >>)}
    \cup {HttpResponse(200, FALSE, d) : d \in Payloads}

\* what getCurrentPrice returns: null, a value with numeric price and
\* change24h, or a value in which one of the two is not a number
PriceOutcomes == {"null", "value", "incomplete"}

-----------------------------------------------------------------------------
(* Batch generation *)

IntervalSeconds(itv) ==
    CASE itv = "hours" -> 3600
      [] itv = "days" -> 86400
      [] itv = "weeks" -> 604800

\* nextTimestamps[interval === 'hours' ? 'hourly' : interval === 'days' ? 'daily' : 'weekly']
BaseTimestamp(ts, itv) ==
    IF itv = "hours" THEN ts.hourly ELSE IF itv = "days" THEN ts.daily ELSE ts.weekly

StepTimestamp_FromOne(base, k, itv) == base + (k + 1) * IntervalSeconds(itv)

\* baseTimestamp + (i * intervalSeconds[interval])
StepTimestamp(base, k, itv) == base + k * IntervalSeconds(itv)

-----------------------------------------------------------------------------
(* CSV output: a text is a sequence of one-character strings *)

Digit(d) ==
    CASE d = 0 -> "0" [] d = 1 -> "1" [] d = 2 -> "2" [] d = 3 -> "3" [] d = 4 -> "4"
      [] d = 5 -> "5" [] d = 6 -> "6" [] d = 7 -> "7" [] d = 8 -> "8" [] d = 9 -> "9"

\* decimal digits of a natural number
RECURSIVE Digits(_)
Digits(n) == IF n < 10 THEN <<Digit(n)>> ELSE Digits(n \div 10) \o <<Digit(n % 10)>>

\* the fraction digits of frac / 10^places, without trailing zeros
RECURSIVE FractionDigits(_, _)
FractionDigits(frac, places) ==
    IF frac = 0 \/ places = 0 THEN << >>
    ELSE IF frac % 10 = 0 THEN FractionDigits(frac \div 10, places - 1)
    ELSE FractionDigits(frac \div 10, places - 1) \o <<Digit(frac % 10)>>

RECURSIVE Pow10(_)
Pow10(k) == IF k = 0 THEN 1 ELSE 10 * Pow10(k - 1)

\* leading zeros of a fraction of `places` digits
RECURSIVE LeadingZeros(_, _)
LeadingZeros(frac, places) ==
    IF places = 0 \/ frac >= Pow10(places - 1) THEN << >>
    ELSE <<"0">> \o LeadingZeros(frac, places - 1)

\* String(x) of the number v / 10^places, or of NaN: the shortest decimal
NumberToString(x, places) ==
    IF x.nan THEN <<"N", "a", "N">>
    ELSE
        LET a == Abs(x.v)
            whole == a \div Pow10(places)
            frac == a % Pow10(places)
            sign == IF x.v < 0 THEN <<"-">> ELSE << >>
        IN  IF frac = 0 THEN sign \o Digits(whole)
            ELSE sign \o Digits(whole) \o <<".">> \o LeadingZeros(frac, places)
                      \o FractionDigits(frac, places)

ColorChars(color) ==
    IF color = "green" THEN <<"g", "r", "e", "e", "n">> ELSE <<"r", "e", "d">>

Headers ==
    <<"t", "i", "m", "e", "s", "t", "a", "m", "p", ",", "c", "o", "l", "o", "r", ",",
      "c", "o", "n", "f", "i", "d", "e", "n", "c", "e", ",", "p", "r", "i", "c", "e">>

CsvRow_PriceBeforeConfidence(p) ==
    NumberToString(Num(p.timestamp), 0) \o <<",">> \o ColorChars(p.color) \o <<",">>
        \o NumberToString(p.price, 2) \o <<",">> \o NumberToString(p.confidence, 3)

\* `${p.timestamp},${p.color},${p.confidence},${p.price}`
CsvRow(p) ==
    NumberToString(Num(p.timestamp), 0) \o <<",">> \o ColorChars(p.color) \o <<",">>
        \o NumberToString(p.confidence, 3) \o <<",">> \o NumberToString(p.price, 2)

\* lines.join('\n')
RECURSIVE JoinLines(_)
JoinLines(lines) ==
    IF Len(lines) = 1 THEN lines[1]
    ELSE lines[1] \o <<"\n">> \o JoinLines(Tail(lines))

predictionsToCSV(ps) ==
    JoinLines(<<Headers>> \o [k \in 1..Len(ps) |-> CsvRow(ps[k])])

\* text.split(sep)
RECURSIVE Split(_, _)
Split(text, sep) ==
    IF \A k \in 1..Len(text) : text[k] # sep THEN <<text>>
    ELSE LET k == CHOOSE j \in 1..Len(text) :
                    text[j] = sep /\ \A h \in 1..(j - 1) : text[h] # sep
         IN  <<SubSeq(text, 1, k - 1)>> \o Split(SubSeq(text, k + 1, Len(text)), sep)

-----------------------------------------------------------------------------
(* State *)

None == "none"

IdleTime ==
    /\ now = 0
    /\ tz = None
    /\ nextTimestamps = None

IdleBatch ==
    /\ interval = None
    /\ count = 0
    /\ response = None
    /\ baseTimestamp = 0
    /\ historicalData = << >>
    /\ i = 0
    /\ predictions = << >>
    /\ error = None
    /\ csv = None

IdleTrend ==
    /\ priceData = << >>
    /\ trend = None
    /\ prediction = None

timeVars == <<now, tz, nextTimestamps>>

batchVars == <<interval, count, response, baseTimestamp, historicalData, i,
               predictions, error, csv>>

\* no file written, no cadence started
IdleFiles ==
    /\ files = {}
    /\ attempted = << >>

fileVars == <<files, attempted>>

-----------------------------------------------------------------------------
(* analyzeTrend and generatePricePrediction called on a candle sequence *)

\* the candle sequences fetchOHLCData returns for the payloads
NormalizedPayloads == {normalizeOHLCData(d) : d \in Payloads}

InitTrend ==
    /\ pc = "ready"
    /\ IdleFiles
    /\ priceData \in CandleSequences \cup NormalizedPayloads
    /\ trend = None
    /\ prediction = None
    /\ IdleTime
    /\ IdleBatch

AnalyzeTrend ==
    /\ pc = "ready"
    /\ trend' = analyzeTrend(priceData)
    /\ pc' = "analyzed"
    /\ UNCHANGED <<fileVars, priceData, prediction, timeVars, batchVars>>

GeneratePricePrediction ==
    /\ pc = "ready"
    /\ \E itv \in Intervals, r1 \in Draws :
          \* the second and third draw are made on the no-data branch only
          \E r2 \in (IF Len(priceData) = 0 THEN Draws ELSE {r1}),
             r3 \in (IF Len(priceData) = 0 THEN Draws ELSE {r1}) :
              /\ prediction' = generatePricePrediction(priceData, itv, r1, r2, r3)
              /\ interval' = itv
    /\ pc' = "predicted"
    /\ UNCHANGED <<fileVars, priceData, trend, timeVars, count, response, baseTimestamp,
                   historicalData, i, predictions, error, csv>>

NextTrend == AnalyzeTrend \/ GeneratePricePrediction

SpecTrend == InitTrend /\ [][NextTrend]_vars

-----------------------------------------------------------------------------
(* analyzeTrend called on a history of 10 candles, and again on the same    *)
(* history with older candles before it                                      *)

\* 10 candles: seven fixed closes, then any three
FullWindows ==
    { MakeCandles(<<4600, 4500, 4600, 4700, 4600, 4500, 4600>> \o cl, hi, lo, vp) :
        cl \in [1..3 -> Closes], hi \in Wicks, lo \in Wicks, vp \in VolumePatterns }

\* older candles: a quiet one, a spike far above every other candle with a
\* large volume, and a crash far below
OlderCandles ==
    { [open |-> 4600, high |-> 4650, low |-> 4550, close |-> 4600, volume |-> 0],
      [open |-> 5000, high |-> 5500, low |-> 4900, close |-> 5200, volume |-> 5000],
      [open |-> 4100, high |-> 4200, low |-> 3500, close |-> 4000, volume |-> 50] }

InitWindow ==
    /\ pc = "ready"
    /\ IdleFiles
    /\ priceData \in FullWindows
    /\ trend = None
    /\ prediction = None
    /\ IdleTime
    /\ IdleBatch

ExtendHistory ==
    /\ pc = "analyzed"
    /\ Len(priceData) < 10 + MaxExtra
    /\ \E c \in OlderCandles :
          priceData' = <<[timestamp |-> priceData[1].timestamp - 1000,
                          open |-> c.open, high |-> c.high, low |-> c.low,
                          close |-> c.close, volume |-> c.volume]>> \o priceData
    /\ trend' = analyzeTrend(priceData')
    /\ UNCHANGED <<fileVars, pc, prediction, timeVars, batchVars>>

NextWindow == AnalyzeTrend \/ ExtendHistory

SpecWindow == InitWindow /\ [][NextWindow]_vars

-----------------------------------------------------------------------------
(* getNextTimestamps called at an instant, on a host in a time zone *)

InitTime ==
    /\ pc = "ready"
    /\ now \in Nows
    /\ tz \in Zones
    /\ nextTimestamps = None
    /\ IdleTrend
    /\ IdleBatch
    /\ IdleFiles

GetNextTimestamps ==
    /\ pc = "ready"
    /\ nextTimestamps' = getNextTimestamps(now, tz)
    /\ pc' = "aligned"
    /\ UNCHANGED <<fileVars, now, tz, priceData, trend, prediction, batchVars>>

NextTime == GetNextTimestamps

SpecTime == InitTime /\ [][NextTime]_vars

-----------------------------------------------------------------------------
(* generatePredictions(interval, count), then predictionsToCSV on its result *)

trendVars == <<priceData, trend, prediction>>

\* instants at which a batch is started: a Monday 00:00 UTC, and a Friday
\* afternoon
BatchNows == {4 * MsPerDay, 8 * MsPerDay + 15 * MsPerHour + 1234567}

BatchZones == {FixedZone(0), FixedZone(-300)}

Init ==
    /\ pc = "start"
    /\ interval \in Intervals
    /\ count \in 0..MaxCount
    /\ now \in BatchNows
    /\ tz \in BatchZones
    /\ nextTimestamps = None
    /\ response = None
    /\ baseTimestamp = 0
    /\ historicalData = << >>
    /\ i = 0
    /\ predictions = << >>
    /\ error = None
    /\ csv = None
    /\ IdleTrend
    /\ IdleFiles

\* const nextTimestamps = this.getNextTimestamps(); const baseTimestamp = ...
Begin ==
    /\ pc = "start"
    /\ nextTimestamps' = getNextTimestamps(now, tz)
    /\ baseTimestamp' = BaseTimestamp(nextTimestamps', interval)
    /\ pc' = "fetch"
    /\ UNCHANGED <<fileVars, now, tz, interval, count, response, historicalData, i,
                   predictions, error, csv, trendVars>>

\* const historicalData = await this.fetchOHLCData(30)
FetchOHLCData ==
    /\ pc = "fetch"
    /\ \E resp \in Responses :
          LET out == FetchOutcome(resp)
          IN  /\ response' = resp
              /\ IF out.error # "none"
                 THEN /\ error' = out.error
                      /\ pc' = "thrown"
                      /\ UNCHANGED historicalData
                 ELSE /\ historicalData' = out.data
                      /\ pc' = "price"
                      /\ UNCHANGED error
    /\ UNCHANGED <<fileVars, timeVars, interval, count, baseTimestamp, i, predictions,
                   csv, trendVars>>

\* const currentPrice = await this.getCurrentPrice(): null after an error it
\* caught, or a value whose price and change24h are logged with toFixed(2),
\* which throws a TypeError when one of them is not a number
GetCurrentPrice ==
    /\ pc = "price"
    /\ \E outcome \in PriceOutcomes :
          IF outcome = "incomplete"
          THEN /\ error' = "TypeError"
               /\ pc' = "thrown"
          ELSE /\ pc' = "loop"
               /\ UNCHANGED error
    /\ UNCHANGED <<fileVars, timeVars, interval, count, response, baseTimestamp,
                   historicalData, i, predictions, csv, trendVars>>

\* one iteration of the for loop
PredictStep ==
    /\ pc = "loop"
    /\ i < count
    /\ \E r1 \in Draws :
          \E r2 \in (IF Len(historicalData) = 0 THEN Draws ELSE {r1}),
             r3 \in (IF Len(historicalData) = 0 THEN Draws ELSE {r1}) :
              LET p == generatePricePrediction(historicalData, interval, r1, r2, r3)
              IN  predictions' = Append(predictions,
                      [timestamp |-> StepTimestamp(baseTimestamp, i, interval),
                       color |-> p.color,
                       confidence |-> p.confidence,
                       price |-> p.price,
                       analysis |-> p.analysis,
                       indicators |-> p.indicators])
    /\ i' = i + 1
    /\ UNCHANGED <<fileVars, pc, timeVars, interval, count, response, baseTimestamp,
                   historicalData, error, csv, trendVars>>

\* return predictions
Return ==
    /\ pc = "loop"
    /\ ~(i < count)
    /\ pc' = "returned"
    /\ UNCHANGED <<fileVars, timeVars, batchVars, trendVars>>

PredictionsToCSV ==
    /\ pc = "returned"
    /\ csv' = predictionsToCSV(predictions)
    /\ pc' = "csv"
    /\ UNCHANGED <<fileVars, timeVars, interval, count, response, baseTimestamp,
                   historicalData, i, predictions, error, trendVars>>

Next ==
    \/ Begin
    \/ FetchOHLCData
    \/ GetCurrentPrice
    \/ PredictStep
    \/ Return
    \/ PredictionsToCSV

Spec == Init /\ [][Next]_vars

-----------------------------------------------------------------------------
(* generateAllPredictionFiles(outputDir) on an empty target directory *)

AllIntervals_DaysShort ==
    << [name |-> "hours", filename |-> "hourly_predictions.csv", count |-> 48],
       [name |-> "days", filename |-> "daily_predictions.csv", count |-> 24],
       [name |-> "weeks", filename |-> "weekly_predictions.csv", count |-> 12] >>

\* const intervals = [ ... ]
AllIntervals ==
    << [name |-> "hours", filename |-> "hourly_predictions.csv", count |-> 48],
       [name |-> "days", filename |-> "daily_predictions.csv", count |-> 30],
       [name |-> "weeks", filename |-> "weekly_predictions.csv", count |-> 12] >>

\* setTimeout(resolve, 2000)
RateLimitMs == 2000

\* Math.random() over one batch: the values of Draws in turn, from any of them
DrawCycle == <<0, 50, 99>>

RandomSeeds == 0..(Len(DrawCycle) - 1)

StreamDraw(seed, k) == DrawCycle[((seed + k) % Len(DrawCycle)) + 1]

\* the records the for loop of generatePredictions pushes in its first n steps
RECURSIVE PredictionBatch(_, _, _, _, _)
PredictionBatch(data, itv, base, n, seed) ==
    IF n = 0 THEN << >>
    ELSE LET r == StreamDraw(seed, n - 1)
             p == generatePricePrediction(data, itv, r, r, r)
         IN  Append(PredictionBatch(data, itv, base, n - 1, seed),
                    [timestamp |-> StepTimestamp(base, n - 1, itv),
                     color |-> p.color,
                     confidence |-> p.confidence,
                     price |-> p.price,
                     analysis |-> p.analysis,
                     indicators |-> p.indicators])

\* getTaoInfo: the error it rethrows, or "none"
TaoInfoOutcomes == {"none", "fetch failed", "HTTP 401", "TypeError"}

\* mkdir and writeFile: both succeed, mkdir rejects, or writeFile rejects with
\* the file untouched or already truncated
SaveOutcomes == {"saved", "mkdir failed", "write failed", "write failed truncated"}

WriteFile(fs, name, text) ==
    {f \in fs : f.filename # name} \cup {[filename |-> name, text |-> text]}

InitFiles ==
    /\ pc = "all"
    /\ now \in BatchNows
    /\ tz = FixedZone(0)
    /\ nextTimestamps = None
    /\ interval = None
    /\ count = 0
    /\ response = None
    /\ baseTimestamp = 0
    /\ historicalData = << >>
    /\ i = 0
    /\ predictions = << >>
    /\ error = None
    /\ csv = None
    /\ IdleTrend
    /\ IdleFiles

\* await this.getTaoInfo(); the catch block rethrows what it threw
GetTaoInfo ==
    /\ pc = "all"
    /\ \E outcome \in TaoInfoOutcomes :
          IF outcome # "none"
          THEN /\ error' = outcome
               /\ pc' = "caught"
          ELSE /\ pc' = "generate"
               /\ UNCHANGED error
    /\ UNCHANGED <<fileVars, timeVars, interval, count, response, baseTimestamp,
                   historicalData, i, predictions, csv, trendVars>>

\* const predictions = await this.generatePredictions(interval.name,
\* interval.count) for the next entry of intervals
GeneratePredictions ==
    /\ pc = "generate"
    /\ Len(attempted) < Len(AllIntervals)
    /\ LET entry == AllIntervals[Len(attempted) + 1]
       IN  /\ attempted' = Append(attempted, entry.name)
           /\ interval' = entry.name
           /\ count' = entry.count
           /\ nextTimestamps' = getNextTimestamps(now, tz)
           /\ baseTimestamp' = BaseTimestamp(nextTimestamps', entry.name)
           /\ \E resp \in Responses :
                 LET out == FetchOutcome(resp)
                 IN  /\ response' = resp
                     /\ IF out.error # "none"
                        THEN /\ error' = out.error
                             /\ pc' = "caught"
                             /\ UNCHANGED <<historicalData, i, predictions>>
                        ELSE /\ historicalData' = out.data
                             /\ \E outcome \in PriceOutcomes :
                                   IF outcome = "incomplete"
                                   THEN /\ error' = "TypeError"
                                        /\ pc' = "caught"
                                        /\ UNCHANGED <<i, predictions>>
                                   ELSE \E seed \in RandomSeeds :
                                           /\ predictions' =
                                                PredictionBatch(out.data, entry.name,
                                                    baseTimestamp', entry.count, seed)
                                           /\ i' = entry.count
                                           /\ pc' = "save"
                                           /\ UNCHANGED error
    /\ UNCHANGED <<files, now, tz, csv, trendVars>>

\* await this.savePredictionsToFile(predictions, filepath)
SavePredictionsToFile ==
    /\ pc = "save"
    /\ csv' = predictionsToCSV(predictions)
    /\ LET entry == AllIntervals[Len(attempted)]
       IN  \E outcome \in SaveOutcomes :
              CASE outcome = "saved" ->
                     /\ files' = WriteFile(files, entry.filename, csv')
                     /\ pc' = "sleep"
                     /\ UNCHANGED error
                [] outcome = "write failed truncated" ->
                     /\ files' = WriteFile(files, entry.filename, << >>)
                     /\ error' = "write failed"
                     /\ pc' = "caught"
                [] OTHER ->
                     /\ error' = outcome
                     /\ pc' = "caught"
                     /\ UNCHANGED files
    /\ UNCHANGED <<attempted, timeVars, interval, count, response, baseTimestamp,
                   historicalData, i, predictions, trendVars>>

\* await new Promise(resolve => setTimeout(resolve, 2000)), then the next entry
\* of intervals, or the end of the loop
RateLimit ==
    /\ pc = "sleep"
    /\ now' = now + RateLimitMs
    /\ pc' = IF Len(attempted) < Len(AllIntervals) THEN "generate" ELSE "done"
    /\ UNCHANGED <<fileVars, tz, nextTimestamps, batchVars, trendVars>>

\* catch (error) { ...; throw error; }
Rethrow ==
    /\ pc = "caught"
    /\ pc' = "rejected"
    /\ UNCHANGED <<fileVars, timeVars, batchVars, trendVars>>

NextFiles ==
    \/ GetTaoInfo
    \/ GeneratePredictions
    \/ SavePredictionsToFile
    \/ RateLimit
    \/ Rethrow

SpecFiles == InitFiles /\ [][NextFiles]_vars

-----------------------------------------------------------------------------
(* Properties of analyzeTrend and generatePricePrediction (SpecTrend) *)

\* C1: for every window of at least 3 candles analyzeTrend returns a confidence
\* that is a number within [0.55, 0.95], also when all four signals are zero.
C1_ConfidenceWithinBounds ==
    (pc = "analyzed" /\ Len(priceData) >= 3) =>
        /\ ~trend.confidence.nan
        /\ trend.confidence.v >= 550
        /\ trend.confidence.v <= 950

\* C2: for every non-empty candle sequence, cadence and draw,
\* generatePricePrediction returns a price that is a number of at least 0.1.
C2_PriceAtLeastFloor ==
    (pc = "predicted" /\ Len(priceData) > 0) =>
        /\ ~prediction.price.nan
        /\ prediction.price.v >= 10

\* C3 (as stated): on the mock window of the test analyzeTrend yields Up (green).
C3_MockDataUp ==
    (pc = "analyzed" /\ priceData = MockData) => trend.color = "green"

\* C3 (amended): on the mock window of the test analyzeTrend yields Down (red):
\* momentum is +1, support/resistance is -1, and the 1-1 tie goes to red.
C3_MockDataDown ==
    (pc = "analyzed" /\ priceData = MockData) => trend.color = "red"

C3_Witness ==
    /\ pc = "analyzed"
    /\ priceData = MockData
    /\ trend.indicators.momentum = 1
    /\ trend.indicators.movingAverage = 0
    /\ trend.indicators.volume = 0
    /\ trend.indicators.supportResistance = -1

\* C5: for fewer than 3 candles analyzeTrend returns green with confidence
\* exactly 0.5, computing no indicator.
C5_InsufficientData ==
    (pc = "analyzed" /\ Len(priceData) < 3) =>
        /\ trend.confidence = Num(500)
        /\ trend.color = "green"
        /\ ~trend.indicators.present
        /\ trend.priceChange.num = 0
        /\ trend.analysis = FixedText("Insufficient data")

C5_Witness ==
    /\ pc = "analyzed"
    /\ Len(priceData) = 2
    /\ priceData[1].close > priceData[2].close
    /\ trend.color = "green"

-----------------------------------------------------------------------------
(* Properties of getNextTimestamps (SpecTime) *)

\* C7: each first aligned timestamp (hourly, daily, weekly) is strictly greater
\* than now and at most one cadence period after now.
C7_StrictlyFutureWithinOnePeriod ==
    pc = "aligned" =>
        /\ nextTimestamps.hourly * 1000 > now
        /\ nextTimestamps.hourly * 1000 - now <= 3600 * 1000
        /\ nextTimestamps.daily * 1000 > now
        /\ nextTimestamps.daily * 1000 - now <= 86400 * 1000
        /\ nextTimestamps.weekly * 1000 > now
        /\ nextTimestamps.weekly * 1000 - now <= 604800 * 1000

\* C8: whatever the host time zone, the hourly timestamp is a multiple of 3600
\* seconds, the daily one a UTC midnight and the weekly one a Monday 00:00 UTC.
C8_UtcAligned ==
    pc = "aligned" =>
        /\ nextTimestamps.hourly % 3600 = 0
        /\ nextTimestamps.daily % 86400 = 0
        /\ nextTimestamps.weekly % 86400 = 0
        /\ ((nextTimestamps.weekly \div 86400) + 4) % 7 = 1

-----------------------------------------------------------------------------
(* Properties of generatePredictions and predictionsToCSV (Spec) *)

PeriodSeconds ==
    CASE interval = "hours" -> 3600
      [] interval = "days" -> 86400
      [] interval = "weeks" -> 604800

AlignedBase ==
    CASE interval = "hours" -> nextTimestamps.hourly
      [] interval = "days" -> nextTimestamps.daily
      [] interval = "weeks" -> nextTimestamps.weekly

\* C4: a successful generatePredictions(cadence, N) returns exactly N records
\* whose timestamps are strictly increasing, consecutive ones differing by
\* exactly the cadence period, the first one being the aligned base timestamp.
C4_BatchTimestamps ==
    pc = "returned" =>
        /\ Len(predictions) = count
        /\ count > 0 => predictions[1].timestamp = AlignedBase
        /\ \A k \in 1..(Len(predictions) - 1) :
              /\ predictions[k + 1].timestamp > predictions[k].timestamp
              /\ predictions[k + 1].timestamp - predictions[k].timestamp = PeriodSeconds

C4_Witness ==
    /\ pc = "returned"
    /\ interval = "weeks"
    /\ count = 3
    /\ Len(predictions) = 3
    /\ predictions[3].timestamp = predictions[1].timestamp + 1209600

\* the fetch failed: network error, non-success status, or empty payload
FetchFailed ==
    \/ response.kind = "network"
    \/ ~response.ok
    \/ response.null
    \/ Len(response.data) = 0

\* C6: if the candle fetch fails, generatePredictions raises that error and no
\* prediction step runs and no record is returned; prediction steps run only
\* after a fetch that succeeded with a non-empty candle list.
C6_FetchFailurePropagates ==
    /\ (pc \notin {"start", "fetch"} /\ FetchFailed) =>
          /\ pc = "thrown"
          /\ error # "none"
          /\ i = 0
          /\ predictions = << >>
          /\ csv = "none"
    /\ (pc \in {"loop", "returned", "csv"} \/ i > 0) =>
          /\ ~FetchFailed
          /\ error = "none"
          /\ Len(historicalData) > 0
          /\ Len(historicalData) = Len(response.data)

C6_Witness ==
    /\ pc = "thrown"
    /\ response.kind = "http"
    /\ response.ok
    /\ ~response.null
    /\ Len(response.data) = 0
    /\ error = "No OHLC data available"
    /\ count > 0

IsDigit(ch) == ch \in {"0", "1", "2", "3", "4", "5", "6", "7", "8", "9"}

TwoDecimalPlaces(text) ==
    /\ Len(text) >= 4
    /\ text[Len(text) - 2] = "."
    /\ IsDigit(text[Len(text) - 1])
    /\ IsDigit(text[Len(text)])
    /\ \A k \in 1..(Len(text) - 3) : IsDigit(text[k])

\* C10: in the output of predictionsToCSV the price field of every row is
\* rendered with exactly 2 decimal places, for every record whose price is a
\* number rounded to 2 decimals.
C10_PriceTwoDecimalPlaces ==
    pc = "csv" =>
        \A k \in 1..Len(predictions) :
            ~predictions[k].price.nan =>
                TwoDecimalPlaces(Split(Split(csv, "\n")[k + 1], ",")[4])

-----------------------------------------------------------------------------
(* Reading a CSV text back: split on newlines and commas, parseInt/parseFloat *)

DigitValue(ch) ==
    CASE ch = "0" -> 0 [] ch = "1" -> 1 [] ch = "2" -> 2 [] ch = "3" -> 3 [] ch = "4" -> 4
      [] ch = "5" -> 5 [] ch = "6" -> 6 [] ch = "7" -> 7 [] ch = "8" -> 8 [] ch = "9" -> 9

\* the natural number written by a sequence of digits
RECURSIVE ParseDigits(_)
ParseDigits(text) ==
    IF text = << >> THEN 0
    ELSE 10 * ParseDigits(SubSeq(text, 1, Len(text) - 1)) + DigitValue(text[Len(text)])

\* the fraction digits of text, cut or padded with zeros to `places` digits
PadFraction(text, places) ==
    [k \in 1..places |-> IF k <= Len(text) THEN text[k] ELSE "0"]

\* parseFloat(text), as a number of units of 10^-places (more digits are cut)
ParseNumber(text, places) ==
    IF text = << >> \/ \E k \in 1..Len(text) : ~(IsDigit(text[k]) \/ text[k] = ".")
    THEN NaN
    ELSE LET parts == Split(text, ".")
             frac == IF Len(parts) > 1 THEN parts[2] ELSE << >>
         IN  Num(ParseDigits(parts[1]) * Pow10(places)
                 + ParseDigits(PadFraction(frac, places)))

ParseColor(text) ==
    IF text = <<"g", "r", "e", "e", "n">> THEN "green"
    ELSE IF text = <<"r", "e", "d">> THEN "red"
    ELSE "unknown"

\* the (timestamp, direction, price to 2 decimals) read from one row
ParseRow(line) ==
    LET fields == Split(line, ",")
    IN  IF Len(fields) # 4 THEN [timestamp |-> NaN, color |-> "unknown", price |-> NaN]
        ELSE [timestamp |-> ParseNumber(fields[1], 0),
              color |-> ParseColor(fields[2]),
              price |-> ParseNumber(fields[4], 2)]

\* C11: predictionsToCSV produces the header row 'timestamp,color,confidence,price'
\* followed by exactly one row per record in the same order, and parsing the rows
\* back yields the same (timestamp, direction, price to 2 decimals) triples.
C11_CsvRoundTrip ==
    pc = "csv" =>
        LET lines == Split(csv, "\n")
        IN  /\ Len(lines) = Len(predictions) + 1
            /\ lines[1] = <<"t", "i", "m", "e", "s", "t", "a", "m", "p", ",",
                            "c", "o", "l", "o", "r", ",",
                            "c", "o", "n", "f", "i", "d", "e", "n", "c", "e", ",",
                            "p", "r", "i", "c", "e">>
            /\ \A k \in 1..Len(predictions) :
                  ParseRow(lines[k + 1]) =
                      [timestamp |-> Num(predictions[k].timestamp),
                       color |-> predictions[k].color,
                       price |-> predictions[k].price]

C11_Witness ==
    /\ pc = "csv"
    /\ Len(predictions) = 3
    /\ predictions[1].price # predictions[2].price
    /\ ~predictions[3].price.nan
    /\ predictions[3].price.v % 10 = 0
    /\ ParseRow(Split(csv, "\n")[4]).price = predictions[3].price

-----------------------------------------------------------------------------
(* Properties of the fused signals (SpecTrend) *)

\* the four fused signals of the returned indicators
FusedSignals ==
    <<trend.indicators.momentum, trend.indicators.movingAverage,
      trend.indicators.volume, trend.indicators.supportResistance>>

Bullish == Cardinality({k \in 1..4 : FusedSignals[k] = 1})

Bearish == Cardinality({k \in 1..4 : FusedSignals[k] = -1})

\* C12: for every window of at least 3 candles with at least one non-zero
\* signal, analyzeTrend returns Up exactly when the +1 signals strictly
\* outnumber the -1 signals and Down otherwise (an equal split gives Down).
C12_StrictMajority ==
    (pc = "analyzed" /\ Len(priceData) >= 3 /\ Bullish + Bearish > 0) =>
        /\ \A k \in 1..4 : FusedSignals[k] \in {-1, 0, 1}
        /\ trend.color = (IF Bullish > Bearish THEN "green" ELSE "red")

C12_Witness ==
    /\ pc = "analyzed"
    /\ Len(priceData) >= 3
    /\ Bullish = 2
    /\ Bearish = 2
    /\ trend.color = "red"

\* C13 (as stated): when all four fused signals are zero, analyzeTrend returns
\* direction Up.
C13_AllZeroUp ==
    (pc = "analyzed" /\ Len(priceData) >= 3 /\ Bullish + Bearish = 0) =>
        trend.color = "green"

\* C13 (amended): when all four fused signals are zero, analyzeTrend returns
\* direction Down (red): 0 > 0 is false.
C13_AllZeroDown ==
    (pc = "analyzed" /\ Len(priceData) >= 3 /\ Bullish + Bearish = 0) =>
        trend.color = "red"

C13_Witness ==
    /\ pc = "analyzed"
    /\ Len(priceData) >= 3
    /\ \A k \in 1..4 : FusedSignals[k] = 0
    /\ trend.color = "red"

\* positions of the window: the last min(10, length) candles
WindowIndices == (Max(1, Len(priceData) - 9))..Len(priceData)

LastClose == priceData[Len(priceData)].close

\* (max high - last close) / last close < 0.02: every high is that near
NearResistance ==
    \A k \in WindowIndices : (priceData[k].high - LastClose) * 100 < 2 * LastClose

\* (last close - min low) / last close < 0.02: every low is that near
NearSupport ==
    \A k \in WindowIndices : (LastClose - priceData[k].low) * 100 < 2 * LastClose

\* C14: the support/resistance signal is -1 when the distance to the maximum
\* high is below 0.02, otherwise +1 when the distance to the minimum low is
\* below 0.02, otherwise 0; when both are below 0.02 it is -1.
C14_SupportResistanceSignal ==
    (pc = "analyzed" /\ Len(priceData) >= 3) =>
        trend.indicators.supportResistance =
            (IF NearResistance THEN -1 ELSE IF NearSupport THEN 1 ELSE 0)

C14_Witness ==
    /\ pc = "analyzed"
    /\ Len(priceData) >= 3
    /\ NearResistance
    /\ NearSupport
    /\ trend.indicators.supportResistance = -1

\* sum of the volumes at positions a..b
RECURSIVE VolumeSum(_, _)
VolumeSum(a, b) == IF a > b THEN 0 ELSE priceData[a].volume + VolumeSum(a + 1, b)

\* the last 3 candles of the window, and the up to 3 before them
RecentFrom == Max(Max(1, Len(priceData) - 9), Len(priceData) - 2)

OlderFrom == Max(Max(1, Len(priceData) - 9), Len(priceData) - 5)

RecentCount == Len(priceData) - RecentFrom + 1

OlderCount == RecentFrom - OlderFrom

\* mean(recent) compared with 1.10 and 0.90 times mean(older), as integers
ExpectedVolumeSignal ==
    IF \A k \in WindowIndices : priceData[k].volume <= 0 THEN 0
    ELSE IF OlderCount = 0 THEN 0
    ELSE LET rs == VolumeSum(RecentFrom, Len(priceData))
             os == VolumeSum(OlderFrom, RecentFrom - 1)
         IN  IF 100 * rs * OlderCount > 110 * os * RecentCount THEN 1
             ELSE IF 100 * rs * OlderCount < 90 * os * RecentCount THEN -1
             ELSE 0

\* C15: the volume signal is 0 when no candle of the window has positive volume
\* or the older group is empty; otherwise +1 / -1 / 0 as the mean volume of the
\* last 3 candles is above 1.10 times, below 0.90 times, or between those
\* multiples of the older group's mean.  For candles produced by
\* normalizeOHLCData (volume always 0) it is 0.
C15_VolumeSignal ==
    /\ \A d \in NormalizedPayloads : \A k \in 1..Len(d) : d[k].volume = 0
    /\ (pc = "analyzed" /\ Len(priceData) >= 3) =>
          /\ trend.indicators.volume = ExpectedVolumeSignal
          /\ priceData \in NormalizedPayloads => trend.indicators.volume = 0

C15_Witness ==
    /\ pc = "analyzed"
    /\ Len(priceData) = 5
    /\ priceData[1].volume > priceData[5].volume
    /\ priceData[5].volume > 0
    /\ trend.indicators.volume = -1

\* C17: for every non-empty candle sequence, cadence and draw, the price of
\* generatePricePrediction is a number within close x the cadence's maximum
\* fractional move of the last close (to half a cent of rounding), or is the
\* 0.1 floor.
C17_PriceWithinMaxMove ==
    (pc = "predicted" /\ Len(priceData) > 0) =>
        /\ ~prediction.price.nan
        /\ \/ prediction.price.v = ClampPrice(0)
           \/ 1000 * Abs(prediction.price.v - priceData[Len(priceData)].close)
                <= priceData[Len(priceData)].close * VolatilityMultiplier(interval)
                     + 500

\* C18: within one batch of generatePredictions every record has the same
\* direction, the same confidence and the same rationale, whatever the draws,
\* and no record is the randomized no-data fallback.
C18_BatchSameAnalysis ==
    (pc \in {"loop", "returned", "csv"}) =>
        /\ \A j, k \in 1..Len(predictions) :
              /\ predictions[j].color = predictions[k].color
              /\ predictions[j].confidence = predictions[k].confidence
              /\ predictions[j].analysis = predictions[k].analysis
        /\ \A j \in 1..Len(predictions) :
              /\ predictions[j].analysis
                   # FixedText("No historical data - random prediction")
              /\ Len(historicalData) > 0

C18_Witness ==
    /\ pc = "returned"
    /\ Len(predictions) = MaxCount
    /\ ~predictions[1].price.nan
    /\ ~predictions[2].price.nan
    /\ predictions[1].price # predictions[2].price
    /\ predictions[1].color = "green"

-----------------------------------------------------------------------------
(* Property of the analysis window (SpecWindow) *)

\* C16: analyzeTrend depends only on the last 10 candles: two analysed
\* sequences of at least 10 candles with the same last 10 candles have the same
\* direction, confidence, momentum delta and indicator signals.
C16_OnlyLastTen ==
    [][(/\ pc = "analyzed"
        /\ pc' = "analyzed"
        /\ Len(priceData) >= 10
        /\ Len(priceData') >= 10
        /\ SubSeq(priceData', Len(priceData') - 9, Len(priceData'))
             = SubSeq(priceData, Len(priceData) - 9, Len(priceData)))
       => /\ trend'.color = trend.color
          /\ trend'.confidence = trend.confidence
          /\ trend'.priceChange = trend.priceChange
          /\ trend'.indicators = trend.indicators]_vars

C16_Witness ==
    /\ pc = "analyzed"
    /\ Len(priceData) = 12
    /\ priceData[1].high = 5500
    /\ priceData[2].low = 3500
    /\ trend.indicators.present
    /\ trend.indicators.supportResistance = 0

-----------------------------------------------------------------------------
(* Property of generateAllPredictionFiles (SpecFiles) *)

CadenceOrder == <<"hours", "days", "weeks">>

CadenceFiles ==
    <<"hourly_predictions.csv", "daily_predictions.csv", "weekly_predictions.csv">>

CadenceRecords == <<48, 30, 12>>

\* the lines of a text after its first
RowCount(text) == Cardinality({j \in 1..Len(text) : text[j] = "\n"})

FileWritten(k) == \E f \in files : f.filename = CadenceFiles[k]

\* the file of the k-th cadence holds a header and all records of its batch
FileComplete(k) ==
    \E f \in files : /\ f.filename = CadenceFiles[k]
                     /\ RowCount(f.text) = CadenceRecords[k]

\* C19: generateAllPredictionFiles starts the cadences in the order hourly,
\* daily, weekly and writes each file, with 48, 30 and 12 records, only after
\* its batch; after a failure the error is rethrown, no later cadence is
\* started, and the files of the earlier cadences stay in place.
C19_FilesInOrder ==
    LET n == Len(attempted)
    IN  /\ n <= 3
        /\ \A k \in 1..n : attempted[k] = CadenceOrder[k]
        /\ \A k \in 1..3 :
              FileWritten(k) =>
                 /\ k <= n
                 /\ k = n => pc # "save"
                 /\ \/ FileComplete(k)
                    \/ k = n /\ pc \in {"caught", "rejected"}
        /\ \A k \in 1..(n - 1) : FileComplete(k)
        /\ pc \in {"sleep", "done"} => FileComplete(n)
        /\ pc = "save" => Len(predictions) = CadenceRecords[n]
        /\ error # None <=> pc \in {"caught", "rejected"}
        /\ pc = "done" => n = 3

C19_Witness ==
    /\ pc = "rejected"
    /\ attempted = CadenceOrder
    /\ response.kind = "network"
    /\ FileComplete(1)
    /\ FileComplete(2)
    /\ ~FileWritten(3)

====
